---- MODULE Spec2Model ----
(***************************************************************************)
(* Model of backend/main.py: the POST /summarize endpoint of the reading   *)
(* list backend.  A request is validated, the page behind its url is       *)
(* fetched and reduced to the text of its <p> elements, the text is sent   *)
(* to the Gemini model and the generated text is returned.                 *)
(*                                                                         *)
(* Text is modelled as Python models it: a str is a sequence of code       *)
(* points (32 is the space, 10 the line feed, 97 the letter a).            *)
(***************************************************************************)
EXTENDS Integers, Sequences, FiniteSets, TLC

VARIABLES
    gemini_api_key, \* the module-level credential, read once at start
    gemini,         \* how the Gemini service behaves (fixed for a run)
    pc,             \* per worker: the stage of the request it serves
    request,        \* per worker: the body of the request as it was sent
    url_to_scrape,  \* per worker: local of summarize
    article_text,   \* per worker: local of summarize
    prompt,         \* per worker: local of summarize
    response,       \* per worker: local of summarize (the Gemini response)
    sent,           \* per worker: the HTTP responses written for the request
    fetches,        \* per worker: requests.get calls made for the request
    calls,          \* per worker: prompts handed to generate_content for the request
    fetched,        \* scrape harness: what requests.get produced for the url
    scraped         \* scrape harness: what scrape_article_text returned for it

serverVars == <<gemini_api_key, gemini>>

workerVars == <<pc, request, url_to_scrape, article_text, prompt, response, sent,
                fetches, calls>>

harnessVars == <<fetched, scraped>>

vars == <<serverVars, workerVars, harnessVars>>

(***************************************************************************)
(* Bounds of the model                                                     *)
(***************************************************************************)
\* longest text node of the generated pages
MaxLen == 2

\* requests the host serves at the same time (one thread each)
NumWorkers == 2

(***************************************************************************)
(* Python strings                                                          *)
(***************************************************************************)
\* the code points str.isspace() accepts, up to U+00A0
Whitespace == {9, 10, 11, 12, 13, 28, 29, 30, 31, 32, 133, 160}

IsSpace(c) == c \in Whitespace

Min(S) == CHOOSE x \in S : \A y \in S : x <= y

Max(S) == CHOOSE x \in S : \A y \in S : y <= x

\* str.strip(): the string without its leading and trailing whitespace
strip(s) ==
    LET solid == {i \in 1..Len(s) : ~IsSpace(s[i])}
    IN  IF solid = {} THEN <<>> ELSE SubSeq(s, Min(solid), Max(solid))

\* str.split() of s[lo..hi]: its maximal runs of non-whitespace, in order.
\* The range is halved so that a long text needs only a shallow recursion;
\* a run that crosses the middle is put together again.
RECURSIVE SplitRange(_, _, _)
SplitRange(s, lo, hi) ==
    IF lo > hi THEN <<>>
    ELSE IF lo = hi THEN (IF IsSpace(s[lo]) THEN <<>> ELSE << <<s[lo]>> >>)
    ELSE LET mid == (lo + hi) \div 2
             L == SplitRange(s, lo, mid)
             R == SplitRange(s, mid + 1, hi)
         IN  IF ~IsSpace(s[mid]) /\ ~IsSpace(s[mid + 1])
             THEN SubSeq(L, 1, Len(L) - 1) \o << L[Len(L)] \o R[1] >> \o Tail(R)
             ELSE L \o R

split(s) == SplitRange(s, 1, Len(s))

\* sep.join(parts[lo..hi])
RECURSIVE JoinRange(_, _, _, _)
JoinRange(sep, parts, lo, hi) ==
    IF lo > hi THEN <<>>
    ELSE IF lo = hi THEN parts[lo]
    ELSE LET mid == (lo + hi) \div 2
         IN  JoinRange(sep, parts, lo, mid) \o sep \o JoinRange(sep, parts, mid + 1, hi)

join(sep, parts) == JoinRange(sep, parts, 1, Len(parts))

\* parts[:n]
Take(parts, n) == SubSeq(parts, 1, IF Len(parts) < n THEN Len(parts) ELSE n)

Space == <<32>>

(***************************************************************************)
(* Pages.  A parsed page is what soup.find_all('p') sees of it: its <p>    *)
(* elements in document order, each with its text nodes in document order  *)
(* (a text node is one run of text between two tags).                      *)
(***************************************************************************)
\* Tag.get_text(strip=True): every text node stripped, the empty ones
\* dropped, the rest concatenated with the default separator ''
get_text_strip(p) ==
    LET stripped == [i \in 1..Len(p) |-> strip(p[i])]
    IN  join(<<>>, stripped)

max_words == 1500

\* lines 57-65 of scrape_article_text: the text of a parsed page
extract(doc) ==
    LET text == join(Space, [i \in 1..Len(doc) |-> get_text_strip(doc[i])])
    IN  join(Space, Take(split(text), max_words))

\* What requests.get(url, timeout=10) can produce: an exception of
\* requests.exceptions (kind "raise"), or a response with a status and a
\* body; the body may be one BeautifulSoup fails on (parses = FALSE).
Raised == [kind |-> "raise", status |-> 0, parses |-> FALSE, doc |-> <<>>]

Page(status, doc) == [kind |-> "response", status |-> status, parses |-> TRUE, doc |-> doc]

Unparsable == [kind |-> "response", status |-> 200, parses |-> FALSE, doc |-> <<>>]

\* response.raise_for_status() raises HTTPError for these
IsErrorStatus(status) == status >= 400 /\ status < 600

\* faulty variant: no response.raise_for_status()
scrape_of_NoStatusCheck(got) ==
    IF got.kind = "raise" THEN <<>>
    ELSE IF ~got.parses THEN <<>>
    ELSE extract(got.doc)

\* scrape_article_text, given what the fetch of its url produced
scrape_of(got) ==
    IF got.kind = "raise" THEN <<>>                 \* except RequestException
    ELSE IF IsErrorStatus(got.status) THEN <<>>     \* HTTPError is a RequestException
    ELSE IF ~got.parses THEN <<>>                   \* except Exception
    ELSE extract(got.doc)

(***************************************************************************)
(* The inputs of the scrape harness                                        *)
(***************************************************************************)
Chars == {32, 97}

Strs == UNION {[1..n -> Chars] : n \in 0..MaxLen}

\* a <p> with no text, with one text node, with two (an inline element
\* such as <b> splits the text of a <p> into several nodes)
Paras == {<<>>} \cup {<<s>> : s \in Strs} \cup {<<s, t>> : s \in Strs, t \in Strs}

SmallDocs == {<<>>} \cup {<<p>> : p \in Paras} \cup {<<p, q>> : p \in Paras, q \in Paras}

\* the k-th word of a long page: one CJK ideograph each, all different
Word(k) == <<19968 + k>>

\* n one-word paragraphs and then the paragraph last
LongDoc(n, last) == [k \in 1..(n + 1) |-> IF k <= n THEN <<Word(k)>> ELSE last]

LongDocs ==
    {LongDoc(n, last) : n \in {max_words - 2, max_words - 1, max_words},
                        last \in {<<>>, <<Word(0)>>, <<Word(0) \o Space, Word(0)>>,
                                  <<Word(0) \o <<10, 32>> \o Word(0)>>}}

HelloDoc == << <<<<72, 101, 108, 108, 111, 32, 119, 111, 114, 108, 100, 46>>>>,
               <<<<83, 101, 99, 111, 110, 100, 32, 112, 97, 114, 97, 103, 114, 97, 112, 104, 46>>>> >>

\* <p>Hello <b>world</b></p>
InlineDoc == << << <<72, 101, 108, 108, 111, 32>>, <<119, 111, 114, 108, 100>> >> >>

\* <p>\n  a\t b \n</p>
RaggedDoc == << << <<10, 32, 32, 97, 9, 32, 98, 32, 10>> >> >>

Docs == SmallDocs \cup LongDocs \cup {HelloDoc, InlineDoc, RaggedDoc}

Outcomes ==
    {Raised, Unparsable}
    \cup {Page(st, d) : st \in {200}, d \in Docs}
    \cup {Page(st, d) : st \in {404, 503}, d \in {<<>>, HelloDoc}}


(***************************************************************************)
(* The world the server runs in                                            *)
(***************************************************************************)
\* the pages of the web, which do not change during a run
Web ==
    [u \in {"http://example.com/article", "http://example.com/inline",
            "http://example.com/nop", "http://example.com/gone",
            "http://example.com/binary", "http://down.invalid/"} |->
        CASE u = "http://example.com/article" -> Page(200, HelloDoc)
          [] u = "http://example.com/inline"  -> Page(200, InlineDoc)
          [] u = "http://example.com/nop"     -> Page(200, <<>>)
          [] u = "http://example.com/gone"    -> Page(404, HelloDoc)
          [] u = "http://example.com/binary"  -> Unparsable
          [] u = "http://down.invalid/"       -> Raised]

URLs == DOMAIN Web

\* scrape_article_text(url): one requests.get and the extraction
scrape_article_text(url) == scrape_of(Web[url])

\* scrape_article_text is a function of the url while the web does not
\* change; its values are tabulated once
Scraped == [u \in URLs |-> scrape_article_text(u)]

\* os.environ.get("GEMINI_API_KEY"): None when the variable is unset
None == "<None>"

Environments == {None, "", "AIza-key"}

\* faulty variant: only the unset variable counts as missing (`is None`)
KeyConfigured_NotNone(key) == key # None

\* Python's truth value of the credential
KeyConfigured(key) == key # None /\ key # ""

(***************************************************************************)
(* Request bodies.  A body is either not JSON (kind "invalid") or a JSON   *)
(* value, given by its type, its size (number of keys, of elements, of     *)
(* characters; the value of a number or bool), what `"url" in data` looks  *)
(* among (the keys of an object, the elements of an array, the substrings  *)
(* of a string) and, for an object with the key, data["url"].              *)
(***************************************************************************)
Json(type, size, members, url) ==
    [type |-> type, size |-> size, members |-> members, url |-> url]

NotJson == Json("invalid", 0, {}, "")

\* the request slot of a worker that serves nothing
NoRequest == Json("none", 0, {}, "")

UrlBodies == {Json("object", 1, {"url"}, u) : u \in URLs}

NoUrlBodies ==
    { NotJson,                                   \* not json
      Json("null", 0, {}, ""),                   \* null
      Json("object", 0, {}, ""),                 \* {}
      Json("object", 1, {"link"}, ""),           \* {"link": "http://example.com/article"}
      Json("array", 1, {"http://example.com/article"}, ""),  \* ["http://example.com/article"]
      Json("array", 1, {"url"}, ""),             \* ["url"]
      Json("string", 3, {"url"}, ""),            \* "url"
      Json("number", 5, {}, "") }                \* 5

Bodies == UrlBodies \cup NoUrlBodies

\* request.get_json(): raises BadRequest on a body that is not JSON
GetJsonRaises(body) == body.type = "invalid"

\* `not data`
Falsy(data) == data.type = "null" \/ data.size = 0

\* `"url" in data` raises TypeError on a number or a bool
InRaises(data) == data.type \in {"number", "bool"}

HasUrl(data) == "url" \in data.members

\* data["url"] raises TypeError on a list or a str
SubscriptRaises(data) == data.type # "object"

(***************************************************************************)
(* The Gemini service.  generate_content either raises or returns a        *)
(* response; response.text raises ValueError when the response has no      *)
(* parts and is the text of its parts otherwise, which may be empty.       *)
(***************************************************************************)
GeminiKinds == {"error", "blocked", "empty", "fixed", "echo"}

Template ==
    <<83, 117, 109, 109, 97, 114, 105, 122, 101, 32, 116, 104, 101, 32, 102, 111, 108,
      108, 111, 119, 105, 110, 103, 32, 97, 114, 116, 105, 99, 108, 101, 32, 116, 101,
      120, 116, 32, 105, 110, 32, 51, 32, 99, 111, 110, 99, 105, 115, 101, 32, 98, 117,
      108, 108, 101, 116, 32, 112, 111, 105, 110, 116, 115, 58, 10, 10>>

NoResponse == [raised |-> FALSE, parts |-> FALSE, text |-> <<>>]

\* a deterministic service: its answer is a function of the prompt
generate_content(kind, p) ==
    CASE kind = "error"   -> [raised |-> TRUE,  parts |-> FALSE, text |-> <<>>]
      [] kind = "blocked" -> [raised |-> FALSE, parts |-> FALSE, text |-> <<>>]
      [] kind = "empty"   -> [raised |-> FALSE, parts |-> TRUE,  text |-> <<>>]
      [] kind = "fixed"   -> [raised |-> FALSE, parts |-> TRUE,  text |-> <<45, 32, 97, 10>>]
      [] kind = "echo"    -> [raised |-> FALSE, parts |-> TRUE,
                              text |-> <<45, 32>> \o SubSeq(p, Len(Template) + 1, Len(p))]

(***************************************************************************)
(* The handler                                                             *)
(***************************************************************************)
Workers == 1..NumWorkers

\* jsonify({"error": message}), status
Error(status, message) ==
    [status |-> status, key |-> "error", error |-> message, summary |-> <<>>]

\* faulty variant: the generated text is stripped before it is returned
Success_Stripped(text) ==
    [status |-> 200, key |-> "summary", error |-> "", summary |-> strip(text)]

\* jsonify({"summary": text}) with the default status
Success(text) ==
    [status |-> 200, key |-> "summary", error |-> "", summary |-> text]

NoUrlProvided == Error(400, "No URL provided")

CouldNotScrape == Error(400, "Could not scrape text from URL")

KeyNotConfigured == Error(500, "AI API key not configured on server")

\* faulty variant: the handler returns str(e)
InternalError_Detailed == Error(500, "400 Bad Request: Failed to decode JSON object")

InternalError == Error(500, "An internal server error occurred")

\* lines 24-31: genai.configure is called only with a credential; without
\* one every call of the service fails
Init ==
    /\ gemini_api_key \in Environments
    /\ gemini \in (IF KeyConfigured(gemini_api_key) THEN GeminiKinds ELSE {"error"})
    /\ pc = [w \in Workers |-> "Idle"]
    /\ request = [w \in Workers |-> NoRequest]
    /\ url_to_scrape = [w \in Workers |-> ""]
    /\ article_text = [w \in Workers |-> <<>>]
    /\ prompt = [w \in Workers |-> <<>>]
    /\ response = [w \in Workers |-> NoResponse]
    /\ sent = [w \in Workers |-> <<>>]
    /\ fetches = [w \in Workers |-> 0]
    /\ calls = [w \in Workers |-> 0]
    /\ fetched = Raised
    /\ scraped = <<>>

\* `return jsonify(...), status`: the request ends with this response
Return(w, reply) ==
    /\ sent' = [sent EXCEPT ![w] = Append(@, reply)]
    /\ pc' = [pc EXCEPT ![w] = "Responded"]

\* a POST /summarize arrives and Flask hands it to a worker
Receive(w, body) ==
    /\ pc[w] = "Idle"
    /\ pc' = [pc EXCEPT ![w] = "Received"]
    /\ request' = [request EXCEPT ![w] = body]
    /\ UNCHANGED <<serverVars, harnessVars, url_to_scrape, article_text, prompt,
                   response, sent, fetches, calls>>

\* lines 78-84: the body is read and checked for the url
Validate(w) ==
    /\ pc[w] = "Received"
    /\ LET data == request[w]
       IN  IF GetJsonRaises(data)
           THEN Return(w, InternalError) /\ UNCHANGED url_to_scrape
           ELSE IF Falsy(data)
           THEN Return(w, NoUrlProvided) /\ UNCHANGED url_to_scrape
           ELSE IF InRaises(data)
           THEN Return(w, InternalError) /\ UNCHANGED url_to_scrape
           ELSE IF ~HasUrl(data)
           THEN Return(w, NoUrlProvided) /\ UNCHANGED url_to_scrape
           ELSE IF SubscriptRaises(data)
           THEN Return(w, InternalError) /\ UNCHANGED url_to_scrape
           ELSE /\ url_to_scrape' = [url_to_scrape EXCEPT ![w] = data.url]
                /\ pc' = [pc EXCEPT ![w] = "Validated"]
                /\ UNCHANGED sent
    /\ UNCHANGED <<serverVars, harnessVars, request, article_text, prompt, response,
                   fetches, calls>>

\* faulty variant: an empty extraction is tried a second time
Scrape_Retry(w) ==
    /\ pc[w] = "Validated"
    /\ fetches' = [fetches EXCEPT ![w] = @ + 1]
    /\ LET text == Scraped[url_to_scrape[w]]
       IN  /\ article_text' = [article_text EXCEPT ![w] = text]
           /\ IF text = <<>>
              THEN IF fetches[w] = 0
                   THEN UNCHANGED <<pc, sent>>
                   ELSE Return(w, CouldNotScrape)
              ELSE pc' = [pc EXCEPT ![w] = "Scraped"] /\ UNCHANGED sent
    /\ UNCHANGED <<serverVars, harnessVars, request, url_to_scrape, prompt, response,
                   calls>>

\* faulty variant: the url is kept in a module-level variable, which a request
\* validated in the meantime has overwritten
Scrape_SharedUrl(w) ==
    /\ pc[w] = "Validated"
    /\ fetches' = [fetches EXCEPT ![w] = @ + 1]
    /\ LET others == {v \in Workers \ {w} : pc[v] = "Validated"}
           url == IF others = {} THEN url_to_scrape[w]
                  ELSE url_to_scrape[CHOOSE v \in others : TRUE]
           text == Scraped[url]
       IN  /\ article_text' = [article_text EXCEPT ![w] = text]
           /\ IF text = <<>>
              THEN Return(w, CouldNotScrape)
              ELSE pc' = [pc EXCEPT ![w] = "Scraped"] /\ UNCHANGED sent
    /\ UNCHANGED <<serverVars, harnessVars, request, url_to_scrape, prompt, response,
                   calls>>

\* lines 87-91: the page is fetched and its text extracted
Scrape(w) ==
    /\ pc[w] = "Validated"
    /\ fetches' = [fetches EXCEPT ![w] = @ + 1]
    /\ LET text == Scraped[url_to_scrape[w]]
       IN  /\ article_text' = [article_text EXCEPT ![w] = text]
           /\ IF text = <<>>
              THEN Return(w, CouldNotScrape)
              ELSE pc' = [pc EXCEPT ![w] = "Scraped"] /\ UNCHANGED sent
    /\ UNCHANGED <<serverVars, harnessVars, request, url_to_scrape, prompt, response,
                   calls>>

\* faulty variant: the text is kept in a module-level variable, which a request
\* scraped in the meantime has overwritten
Summarize_SharedText(w) ==
    /\ pc[w] = "Scraped"
    /\ IF ~KeyConfigured(gemini_api_key)
       THEN /\ Return(w, KeyNotConfigured)
            /\ UNCHANGED <<prompt, response, calls>>
       ELSE LET others == {v \in Workers \ {w} : pc[v] = "Scraped"}
                text == IF others = {} THEN article_text[w]
                        ELSE article_text[CHOOSE v \in others : TRUE]
                p == Template \o text
                r == generate_content(gemini, p)
            IN  /\ prompt' = [prompt EXCEPT ![w] = p]
                /\ calls' = [calls EXCEPT ![w] = @ + 1]
                /\ IF r.raised
                   THEN Return(w, InternalError) /\ UNCHANGED response
                   ELSE /\ response' = [response EXCEPT ![w] = r]
                        /\ pc' = [pc EXCEPT ![w] = "Summarized"]
                        /\ UNCHANGED sent
    /\ UNCHANGED <<serverVars, harnessVars, request, url_to_scrape, article_text,
                   fetches>>

\* lines 94-106: the credential is checked, the prompt built and sent
Summarize(w) ==
    /\ pc[w] = "Scraped"
    /\ IF ~KeyConfigured(gemini_api_key)
       THEN /\ Return(w, KeyNotConfigured)
            /\ UNCHANGED <<prompt, response, calls>>
       ELSE LET p == Template \o article_text[w]
                r == generate_content(gemini, p)
            IN  /\ prompt' = [prompt EXCEPT ![w] = p]
                /\ calls' = [calls EXCEPT ![w] = @ + 1]
                /\ IF r.raised
                   THEN Return(w, InternalError) /\ UNCHANGED response
                   ELSE /\ response' = [response EXCEPT ![w] = r]
                        /\ pc' = [pc EXCEPT ![w] = "Summarized"]
                        /\ UNCHANGED sent
    /\ UNCHANGED <<serverVars, harnessVars, request, url_to_scrape, article_text,
                   fetches>>

\* lines 108-111: response.text is read and returned as the summary
Respond(w) ==
    /\ pc[w] = "Summarized"
    /\ IF ~response[w].parts
       THEN Return(w, InternalError)
       ELSE Return(w, Success(response[w].text))
    /\ UNCHANGED <<serverVars, harnessVars, request, url_to_scrape, article_text,
                   prompt, response, fetches, calls>>

\* the response is on the wire; the worker is free for the next request
\* and the locals of summarize are gone
Finish(w) ==
    /\ pc[w] = "Responded"
    /\ pc' = [pc EXCEPT ![w] = "Idle"]
    /\ request' = [request EXCEPT ![w] = NoRequest]
    /\ url_to_scrape' = [url_to_scrape EXCEPT ![w] = ""]
    /\ article_text' = [article_text EXCEPT ![w] = <<>>]
    /\ prompt' = [prompt EXCEPT ![w] = <<>>]
    /\ response' = [response EXCEPT ![w] = NoResponse]
    /\ sent' = [sent EXCEPT ![w] = <<>>]
    /\ fetches' = [fetches EXCEPT ![w] = 0]
    /\ calls' = [calls EXCEPT ![w] = 0]
    /\ UNCHANGED <<serverVars, harnessVars>>

Next ==
    \E w \in Workers :
        \/ \E body \in Bodies : Receive(w, body)
        \/ Validate(w)
        \/ Scrape(w)
        \/ Summarize(w)
        \/ Respond(w)
        \/ Finish(w)

Spec == Init /\ [][Next]_vars

\* A request that has arrived is served: Flask runs the handler to its
\* return, and requests.get (timeout=10) and generate_content come back.
Fairness ==
    \A w \in Workers :
        WF_vars(Validate(w) \/ Scrape(w) \/ Summarize(w) \/ Respond(w))

FairSpec == Spec /\ Fairness

(***************************************************************************)
(* The scrape harness: scrape_article_text on every outcome of a fetch     *)
(***************************************************************************)
Pending == <<-1>>

ScrapeInit ==
    /\ gemini_api_key = None
    /\ gemini = "error"
    /\ pc = [w \in Workers |-> "Idle"]
    /\ request = [w \in Workers |-> NoRequest]
    /\ url_to_scrape = [w \in Workers |-> ""]
    /\ article_text = [w \in Workers |-> <<>>]
    /\ prompt = [w \in Workers |-> <<>>]
    /\ response = [w \in Workers |-> NoResponse]
    /\ sent = [w \in Workers |-> <<>>]
    /\ fetches = [w \in Workers |-> 0]
    /\ calls = [w \in Workers |-> 0]
    /\ fetched \in Outcomes
    /\ scraped = Pending

ScrapeRun ==
    /\ scraped = Pending
    /\ scraped' = scrape_of(fetched)
    /\ UNCHANGED <<serverVars, workerVars, fetched>>

ScrapeNext == ScrapeRun

ScrapeSpec == ScrapeInit /\ [][ScrapeNext]_vars

(***************************************************************************)
(* The handler as a function: the response of summarize to a request that  *)
(* is served with nothing else going on                                    *)
(***************************************************************************)
summarize(body) ==
    IF GetJsonRaises(body) THEN InternalError
    ELSE IF Falsy(body) THEN NoUrlProvided
    ELSE IF InRaises(body) THEN InternalError
    ELSE IF ~HasUrl(body) THEN NoUrlProvided
    ELSE IF SubscriptRaises(body) THEN InternalError
    ELSE LET text == Scraped[body.url]
         IN  IF text = <<>> THEN CouldNotScrape
             ELSE IF ~KeyConfigured(gemini_api_key) THEN KeyNotConfigured
             ELSE LET r == generate_content(gemini, Template \o text)
                  IN  IF r.raised \/ ~r.parts THEN InternalError
                      ELSE Success(r.text)

(***************************************************************************)
(* Vocabulary of the properties                                            *)
(***************************************************************************)
Responded(w) == pc[w] = "Responded"

\* the response the request of worker w got
TheReply(w) == sent[w][1]

\* the fetch fails or the page has no <p> element
FetchFails(got) ==
    \/ got.kind = "raise"
    \/ got.status >= 400
    \/ got.parses = FALSE
    \/ got.doc = <<>>

Unconfigured == gemini_api_key \in {None, ""}

ErrorMessages ==
    {"No URL provided", "Could not scrape text from URL",
     "AI API key not configured on server", "An internal server error occurred"}

\* the four error responses of the interface
FixedErrors ==
    { [status |-> 400, key |-> "error", error |-> "No URL provided", summary |-> <<>>],
      [status |-> 400, key |-> "error", error |-> "Could not scrape text from URL",
       summary |-> <<>>],
      [status |-> 500, key |-> "error", error |-> "AI API key not configured on server",
       summary |-> <<>>],
      [status |-> 500, key |-> "error", error |-> "An internal server error occurred",
       summary |-> <<>>] }

(***************************************************************************)
(* C1                                                                      *)
(***************************************************************************)
\* C1: every request that carries no url field (a body that is not JSON,
\* null, an object without the key, a JSON value that is no object) is
\* answered 400 with an error key, and nothing is fetched or summarized.
C1_MissingUrlIs400 ==
    \A w \in Workers :
        (Responded(w) /\ request[w] \in NoUrlBodies) =>
            /\ TheReply(w).status = 400
            /\ TheReply(w).key = "error"
            /\ fetches[w] = 0
            /\ calls[w] = 0

(***************************************************************************)
(* C2                                                                      *)
(***************************************************************************)
\* C2 as stated: without a credential every request with a url field is
\* answered 500 "AI API key not configured on server", whatever the fetch
\* and the extraction gave.
C2_NoKeyAlways500 ==
    \A w \in Workers :
        (Unconfigured /\ Responded(w) /\ request[w] \in UrlBodies) =>
            sent[w] = <<KeyNotConfigured>>

\* C2 as amended: without a credential a request with a url field is
\* answered 500 "AI API key not configured on server" when the extraction
\* gave text, and 400 "Could not scrape text from URL" when it gave none;
\* Gemini is not called in either case.
C2_NoKeyAfterScrape ==
    \A w \in Workers :
        (Unconfigured /\ Responded(w) /\ request[w] \in UrlBodies) =>
            /\ calls[w] = 0
            /\ fetches[w] = 1
            /\ article_text[w] # <<>> => sent[w] = <<KeyNotConfigured>>
            /\ article_text[w] = <<>> => sent[w] = <<CouldNotScrape>>

C2_Witness ==
    /\ gemini_api_key = ""
    /\ \E w \in Workers :
        /\ Responded(w)
        /\ request[w] \in UrlBodies
        /\ sent[w] = <<KeyNotConfigured>>
    /\ \E w \in Workers :
        /\ Responded(w)
        /\ request[w] \in UrlBodies
        /\ sent[w] = <<CouldNotScrape>>

(***************************************************************************)
(* C3                                                                      *)
(***************************************************************************)
\* C3: when the fetch of the url raises or returns a 4xx/5xx status, or the
\* page has no <p> element or does not parse, the extraction is empty and
\* the request is answered 400 "Could not scrape text from URL" after one
\* fetch and no call of Gemini.
C3_ScrapeFailureIs400 ==
    \A w \in Workers :
        (/\ pc[w] \in {"Scraped", "Summarized", "Responded"}
         /\ request[w] \in UrlBodies
         /\ FetchFails(Web[request[w].url])) =>
            /\ Responded(w)
            /\ article_text[w] = <<>>
            /\ sent[w] = <<CouldNotScrape>>
            /\ fetches[w] = 1
            /\ calls[w] = 0

C3_Witness ==
    \E v, w \in Workers :
        /\ Responded(v) /\ Responded(w)
        /\ request[v] \in UrlBodies /\ request[w] \in UrlBodies
        /\ Web[request[v].url].status = 404
        /\ Web[request[w].url] = Page(200, <<>>)
        /\ sent[v] = <<CouldNotScrape>>
        /\ sent[w] = <<CouldNotScrape>>

(***************************************************************************)
(* C4                                                                      *)
(***************************************************************************)
\* the text content of a <p>: its text nodes, concatenated as they are
text_content(p) == join(<<>>, p)

WordsOfParagraphs(doc) ==
    split(join(Space, [i \in 1..Len(doc) |-> text_content(doc[i])]))

\* no leading, trailing or doubled whitespace, and no whitespace but spaces
SingleSpaced(s) ==
    \A i \in 1..Len(s) :
        IsSpace(s[i]) => s[i] = 32 /\ i > 1 /\ i < Len(s) /\ ~IsSpace(s[i + 1])

\* the words of a single-spaced text
WordCount(s) == IF s = <<>> THEN 0 ELSE 1 + Cardinality({i \in 1..Len(s) : s[i] = 32})

\* C4: the text scrape_article_text returns for a fetched page is the text
\* content of its <p> elements, joined by single spaces, whitespace runs
\* collapsed, cut to the first 1500 words; it has at most 1500 words and no
\* leading, trailing or doubled whitespace.
C4_TextOfParagraphs ==
    (scraped # Pending /\ fetched.kind = "response" /\ fetched.status = 200
     /\ fetched.parses) =>
        /\ scraped = join(Space, Take(WordsOfParagraphs(fetched.doc), max_words))
        /\ SingleSpaced(scraped)
        /\ WordCount(scraped) <= max_words

\* the part of C4 that holds: the bound on the words and the spacing
C4_BoundedAndSingleSpaced ==
    scraped # Pending => SingleSpaced(scraped) /\ WordCount(scraped) <= max_words

(***************************************************************************)
(* C5                                                                      *)
(***************************************************************************)
\* C5: a 200 response carries a non-empty summary; a Gemini response with
\* empty text is answered 500.
C5_SummaryNotEmpty ==
    \A w \in Workers :
        Responded(w) =>
            /\ TheReply(w).status = 200 => TheReply(w).summary # <<>>
            /\ (calls[w] = 1 /\ response[w].text = <<>>) => TheReply(w).status = 500

(***************************************************************************)
(* C6                                                                      *)
(***************************************************************************)
\* C6: every response is 200 with a summary or one of the four fixed
\* errors with its status; a request whose Gemini call raised, or whose
\* response.text raised, is answered 500 "An internal server error
\* occurred"; no error message is anything but one of the four fixed texts.
C6_FiveShapes ==
    \A w \in Workers :
        /\ \A i \in 1..Len(sent[w]) :
              \/ sent[w][i] \in FixedErrors
              \/ /\ sent[w][i].status = 200
                 /\ sent[w][i].key = "summary"
                 /\ sent[w][i].error = ""
        /\ \A i \in 1..Len(sent[w]) :
              sent[w][i].key = "error" =>
                  /\ sent[w][i].error \in ErrorMessages
                  /\ sent[w][i].summary = <<>>
                  /\ sent[w][i].status \in {400, 500}
        /\ (Responded(w) /\ calls[w] = 1 /\ gemini \in {"error", "blocked"}) =>
              TheReply(w).error = "An internal server error occurred"

C6_Witness ==
    /\ gemini = "error"
    /\ \E v, w \in Workers :
        /\ Responded(v) /\ calls[v] = 1
        /\ TheReply(v).error = "An internal server error occurred"
        /\ Responded(w) /\ request[w] = NotJson
        /\ TheReply(w).error = "An internal server error occurred"

(***************************************************************************)
(* C7                                                                      *)
(***************************************************************************)
\* one fetch, one call and one response at most; a failed stage is the last
OneShot(w) ==
    /\ fetches[w] <= 1
    /\ calls[w] <= 1
    /\ Len(sent[w]) = (IF Responded(w) THEN 1 ELSE 0)
    /\ calls[w] = 1 => fetches[w] = 1
    /\ (Responded(w) /\ TheReply(w) = NoUrlProvided) => fetches[w] = 0 /\ calls[w] = 0
    /\ (Responded(w) /\ TheReply(w) = CouldNotScrape) => fetches[w] = 1 /\ calls[w] = 0
    /\ (Responded(w) /\ TheReply(w) = KeyNotConfigured) => fetches[w] = 1 /\ calls[w] = 0

\* a request that is answered does nothing more
Terminal(w) ==
    Responded(w) =>
        /\ fetches'[w] = fetches[w] \/ pc'[w] = "Idle"
        /\ calls'[w] = calls[w] \/ pc'[w] = "Idle"
        /\ sent'[w] = sent[w] \/ pc'[w] = "Idle"
        /\ pc'[w] \in {"Responded", "Idle"}

\* C7: a request makes at most one fetch and at most one Gemini call, gets
\* exactly one response, runs no stage after a failure, and, once received,
\* is eventually answered.
C7_OneShotAndAnswered ==
    /\ [](\A w \in Workers : OneShot(w))
    /\ [][\A w \in Workers : Terminal(w)]_vars
    /\ \A w \in Workers : (pc[w] = "Received") ~> Responded(w)

C7_Witness ==
    \E v, w \in Workers :
        /\ Responded(v) /\ fetches[v] = 1 /\ calls[v] = 1 /\ TheReply(v).status = 500
        /\ Responded(w) /\ fetches[w] = 1 /\ calls[w] = 0 /\ TheReply(w).status = 400

(***************************************************************************)
(* C8                                                                      *)
(***************************************************************************)
\* C8: two requests with the same body get the same response, whatever was
\* served between them (the pages, the credential and the answers of
\* Gemini do not change during a run).
C8_Idempotent ==
    \A v, w \in Workers :
        (Responded(v) /\ Responded(w) /\ request[v] = request[w]) => sent[v] = sent[w]

C8_Witness ==
    \E v, w \in Workers :
        /\ v # w
        /\ Responded(v) /\ Responded(w)
        /\ request[v] = request[w]
        /\ request[v] \in UrlBodies
        /\ TheReply(v).status = 200
        /\ TheReply(w).status = 200

(***************************************************************************)
(* C9                                                                      *)
(***************************************************************************)
\* C9: under every interleaving of the workers a request gets the response
\* it gets when served alone, and the credential is never written.
C9_Isolation ==
    /\ [](\A w \in Workers : Responded(w) => sent[w] = <<summarize(request[w])>>)
    /\ [][gemini_api_key' = gemini_api_key]_vars

C9_Witness ==
    \E v, w \in Workers :
        /\ v # w
        /\ Responded(v) /\ Responded(w)
        /\ request[v] \in UrlBodies /\ request[w] \in UrlBodies
        /\ TheReply(v).status = 200 /\ TheReply(w).status = 200
        /\ TheReply(v).summary # TheReply(w).summary

(***************************************************************************)
(* C10                                                                     *)
(***************************************************************************)
StageSteps ==
    {<<"Idle", "Received">>, <<"Received", "Validated">>, <<"Validated", "Scraped">>,
     <<"Scraped", "Summarized">>, <<"Summarized", "Responded">>,
     <<"Received", "Responded">>, <<"Validated", "Responded">>,
     <<"Scraped", "Responded">>, <<"Responded", "Idle">>}

\* Gemini was called for the request of w only past the validation, the
\* extraction and the credential check, with the template and the text
CalledInOrder(w) ==
    calls[w] > 0 =>
        /\ pc[w] \in {"Summarized", "Responded"}
        /\ request[w] \in UrlBodies
        /\ fetches[w] = 1
        /\ article_text[w] # <<>>
        /\ ~Unconfigured
        /\ prompt[w] = Template \o article_text[w]

SummaryIsReply(w) ==
    (Responded(w) /\ TheReply(w).status = 200) =>
        /\ calls[w] = 1
        /\ response[w] = generate_content(gemini, prompt[w])
        /\ TheReply(w).summary = response[w].text

\* C10: the stages of a request follow Received, Scraped, Summarized,
\* Responded; Gemini is called only after a passed validation, a non-empty
\* extraction and a configured credential, with the template followed by
\* the extracted text; a 200 carries the generated text as it came.
C10_StagesInOrder ==
    /\ [][\A w \in Workers : pc'[w] # pc[w] => <<pc[w], pc'[w]>> \in StageSteps]_vars
    /\ [](\A w \in Workers : CalledInOrder(w) /\ SummaryIsReply(w))

C10_Witness ==
    \E w \in Workers :
        /\ Responded(w)
        /\ gemini = "fixed"
        /\ calls[w] = 1
        /\ TheReply(w) = Success(<<45, 32, 97, 10>>)

====
